---- MODULE Spec2Model ----
(***************************************************************************)
(* Model of src/index.py: the Lambda handler that validates an S3 event    *)
(* and issues one DynamoDB update_item "ADD #count :inc" on the record     *)
(* id = "visit_count".  Several invocations of handler run side by side    *)
(* or one after another; the table is the only state they share.           *)
(***************************************************************************)
EXTENDS Integers, Sequences, FiniteSets, TLC

\* ---------------------------------------------------------------- bounds
NumInvocations == 2    \* invocations of handler in one behaviour, numbered as they start
MaxInit == 1           \* largest count the record may hold initially

Invocations == 1..NumInvocations
MaxCount == MaxInit + NumInvocations

\* ------------------------------------------------------- Python values
PyNone == [t |-> "NoneType"]
PyStr(s) == [t |-> "str", s |-> s]
PyDict(d) == [t |-> "dict", d |-> d]
EmptyDict == PyDict([k \in {} |-> PyNone])
Raise(kind, text) == [t |-> "raise", kind |-> kind, text |-> text]
NoExc == [t |-> "none"]

\* v.get(k, default); a raise inside a chained call propagates.
DictGet(v, k, default) ==
    IF v.t = "raise" THEN v
    ELSE IF v.t # "dict"
         THEN Raise("AttributeError", "'" \o v.t \o "' object has no attribute 'get'")
    ELSE IF k \in DOMAIN v.d THEN v.d[k] ELSE default

\* Python's `not v` for the values an event carries.
\* Faulty variant: only None counts as false, an empty string passes.
PyNotNoneOnly(v) == v.t = "NoneType"
PyNot(v) ==
    \/ v.t = "NoneType"
    \/ v.t = "str" /\ v.s = ""
    \/ v.t = "dict" /\ DOMAIN v.d = {}

\* ---------------------------------------------------------------- events
\* requestParameters as the trigger delivers them: both fields present, one
\* or both missing, one empty, one None.
RequestParameters ==
    {EmptyDict,
     PyDict([bucketName |-> PyStr("b")]),
     PyDict([key |-> PyStr("k")]),
     PyDict([bucketName |-> PyStr(""), key |-> PyStr("k")]),
     PyDict([bucketName |-> PyStr("b"), key |-> PyStr("")]),
     PyDict([bucketName |-> PyNone, key |-> PyStr("k")]),
     PyDict([bucketName |-> PyStr("b"), key |-> PyStr("k")]),
     PyDict([bucketName |-> PyStr("b"), key |-> PyStr("k2")])}

Details ==
    {EmptyDict}
    \cup {PyDict([requestParameters |-> rp]) : rp \in RequestParameters \cup {PyNone}}

Events ==
    {PyNone, EmptyDict}
    \cup {PyDict([detail |-> d]) : d \in Details \cup {PyNone}}

\* ------------------------------------------------------------ the table
visit_id == "visit_count"

\* ToString is DynamoDB's wire encoding of a number ({"N": "1"}).
ParseN(s) == CHOOSE n \in 0..(2 * MaxCount + 2) : ToString(n) = s

\* The value an item holds for a numeric attribute; ADD treats a missing
\* item or attribute as 0.
AttrValue(tbl, id, attr) ==
    IF id \in DOMAIN tbl /\ attr \in DOMAIN tbl[id] THEN tbl[id][attr] ELSE 0

CountValue(tbl) == AttrValue(tbl, visit_id, "count")

\* The update_item request of handler.
\* Faulty variants: :inc is 2; ReturnValues is NONE.
UpdateRequestInc2 ==
    [Key |-> [id |-> [S |-> visit_id]],
     UpdateExpression |-> [action |-> "ADD", path |-> "#count", value |-> ":inc"],
     ExpressionAttributeNames |-> [p \in {"#count"} |-> "count"],
     ExpressionAttributeValues |-> [p \in {":inc"} |-> [N |-> "2"]],
     ReturnValues |-> "UPDATED_NEW"]
UpdateRequestNoReturn ==
    [Key |-> [id |-> [S |-> visit_id]],
     UpdateExpression |-> [action |-> "ADD", path |-> "#count", value |-> ":inc"],
     ExpressionAttributeNames |-> [p \in {"#count"} |-> "count"],
     ExpressionAttributeValues |-> [p \in {":inc"} |-> [N |-> "1"]],
     ReturnValues |-> "NONE"]
UpdateRequest ==
    [Key |-> [id |-> [S |-> visit_id]],
     UpdateExpression |-> [action |-> "ADD", path |-> "#count", value |-> ":inc"],
     ExpressionAttributeNames |-> [p \in {"#count"} |-> "count"],
     ExpressionAttributeValues |-> [p \in {":inc"} |-> [N |-> "1"]],
     ReturnValues |-> "UPDATED_NEW"]

ReqId(req) == req.Key.id.S
ReqAttr(req) == req.ExpressionAttributeNames[req.UpdateExpression.path]
ReqInc(req) == ParseN(req.ExpressionAttributeValues[req.UpdateExpression.value].N)

\* The table after the store applies ADD: the item and the attribute are
\* created when absent.
\* Faulty variants: ADD that does not create a missing item or attribute;
\* ADD that is lost; ADD applied twice.
TableAddNoCreate(tbl, req) ==
    IF ReqId(req) \in DOMAIN tbl /\ ReqAttr(req) \in DOMAIN tbl[ReqId(req)]
    THEN [tbl EXCEPT ![ReqId(req)][ReqAttr(req)] = @ + ReqInc(req)]
    ELSE tbl
TableAddLost(tbl, req) == tbl
TableAddTwice(tbl, req) ==
    LET id == ReqId(req)
        attr == ReqAttr(req)
        item == IF id \in DOMAIN tbl THEN tbl[id] ELSE [id |-> id]
        newv == AttrValue(tbl, id, attr) + 2 * ReqInc(req)
        newitem == [a \in DOMAIN item \cup {attr} |-> IF a = attr THEN newv ELSE item[a]]
    IN  [k \in DOMAIN tbl \cup {id} |-> IF k = id THEN newitem ELSE tbl[k]]
TableAdd(tbl, req) ==
    LET id == ReqId(req)
        attr == ReqAttr(req)
        item == IF id \in DOMAIN tbl THEN tbl[id] ELSE [id |-> id]
        newv == AttrValue(tbl, id, attr) + ReqInc(req)
        newitem == [a \in DOMAIN item \cup {attr} |-> IF a = attr THEN newv ELSE item[a]]
    IN  [k \in DOMAIN tbl \cup {id} |-> IF k = id THEN newitem ELSE tbl[k]]

\* The store's answer: with ReturnValues = UPDATED_NEW the updated
\* attribute as it is after the update, otherwise no Attributes.
\* Faulty variant: the attribute as it was before the update (UPDATED_OLD).
UpdateResponseOld(old, new, req) ==
    IF req.ReturnValues = "UPDATED_NEW"
    THEN [Attributes |->
            [a \in {ReqAttr(req)} |-> [N |-> ToString(AttrValue(old, ReqId(req), a))]]]
    ELSE [k \in {} |-> 0]
UpdateResponse(old, new, req) ==
    IF req.ReturnValues = "UPDATED_NEW"
    THEN [Attributes |->
            [a \in {ReqAttr(req)} |-> [N |-> ToString(AttrValue(new, ReqId(req), a))]]]
    ELSE [k \in {} |-> 0]

NoResponse == [k \in {} |-> 0]

\* Failure texts of the store client (botocore ClientError).
StoreErrors ==
    {"An error occurred (AccessDeniedException) when calling the UpdateItem operation",
     "An error occurred (ProvisionedThroughputExceededException) when calling the UpdateItem operation"}

\* ------------------------------------------------------------- handler
\* Lines 11-16: NoExc when the event passes validation, else the raise.
Extract(event) ==
    LET s3_event == DictGet(event, "detail", EmptyDict)
        rp == DictGet(s3_event, "requestParameters", EmptyDict)
        bucket_name == DictGet(rp, "bucketName", PyNone)
        object_key == DictGet(rp, "key", PyNone)
    IN  IF bucket_name.t = "raise" THEN bucket_name
        ELSE IF object_key.t = "raise" THEN object_key
        ELSE IF PyNot(bucket_name) \/ PyNot(object_key)
             THEN Raise("ValueError", "Invalid event format")
        ELSE NoExc

\* Line 30: response["Attributes"]["count"]["N"].
NewCount(response) ==
    IF "Attributes" \notin DOMAIN response THEN Raise("KeyError", "'Attributes'")
    ELSE IF "count" \notin DOMAIN response.Attributes THEN Raise("KeyError", "'count'")
    ELSE PyStr(response.Attributes["count"].N)

\* json.dumps of a dict of string values, given as <<key, value>> pairs.
RECURSIVE JsonMembers(_)
JsonMembers(pairs) ==
    IF pairs = <<>> THEN ""
    ELSE "\"" \o Head(pairs)[1] \o "\": \"" \o Head(pairs)[2] \o "\""
         \o (IF Len(pairs) > 1 THEN ", " ELSE "") \o JsonMembers(Tail(pairs))
JsonDumps(pairs) == "{" \o JsonMembers(pairs) \o "}"

\* Lines 34-40.
SuccessResult(new_count) ==
    [statusCode |-> 200,
     body |-> JsonDumps(<< <<"message", "Visit count updated successfully">>,
                           <<"count", new_count>> >>)]

\* Lines 43-46; str(e) is the text of the exception.
\* Faulty variant: the exception text is replaced by a fixed one.
ErrorResultNoText(e) ==
    [statusCode |-> 500,
     body |-> JsonDumps(<< <<"message", "Error updating visit count">>,
                           <<"error", "Internal error">> >>)]
ErrorResult(e) ==
    [statusCode |-> 500,
     body |-> JsonDumps(<< <<"message", "Error updating visit count">>,
                           <<"error", e.text>> >>)]

\* Line 41: `except Exception` catches every exception class raised here.
ExceptionClasses == {"ValueError", "AttributeError", "KeyError", "ClientError"}
\* Faulty variant: `except ValueError`.
CatchesValueErrorOnly(kind) == kind = "ValueError"
Catches(kind) == kind \in ExceptionClasses

NoResult == [statusCode |-> 0, body |-> ""]

\* ----------------------------------------------------------------- state
VARIABLES
    table,      \* the DynamoDB table: id -> item
    pc,         \* where each invocation stands
    event,      \* the event of the running invocation
    request,    \* the update_item request it issued, if any
    response,   \* the store's response
    exc,        \* the exception in flight
    result,     \* what handler returned
    reqs,       \* store requests issued by the running invocation
    before,     \* count the store held immediately before its store call
    after,      \* count the store held immediately after its store call
    outcome,    \* how the store call of the running invocation ended
    initial,    \* the table at the start of the behaviour
    applied,    \* store updates applied so far
    started,    \* invocations started so far
    clean,      \* every invocation so far was valid and its update succeeded
    log         \* the 200 results produced so far, with their events

vars == <<table, pc, event, request, response, exc, result, reqs, before, after,
          outcome, initial, applied, started, clean, log>>

NoRequest == [ReturnValues |-> "none"]

InitialTables ==
    {[k \in {} |-> 0], [k \in {visit_id} |-> [id |-> visit_id]]}
    \cup {[k \in {visit_id} |-> [id |-> visit_id, count |-> n]] : n \in 0..MaxInit}

Init ==
    /\ table \in InitialTables
    /\ initial = table
    /\ pc = [i \in Invocations |-> "idle"]
    /\ event = [i \in Invocations |-> PyNone]
    /\ request = [i \in Invocations |-> NoRequest]
    /\ response = [i \in Invocations |-> NoResponse]
    /\ exc = [i \in Invocations |-> NoExc]
    /\ result = [i \in Invocations |-> NoResult]
    /\ reqs = [i \in Invocations |-> 0]
    /\ before = [i \in Invocations |-> 0]
    /\ after = [i \in Invocations |-> 0]
    /\ outcome = [i \in Invocations |-> "none"]
    /\ applied = 0
    /\ started = 0
    /\ clean = TRUE
    /\ log = <<>>

\* Lines 41-46 for invocation i with exception e in flight: the handler's
\* except clause turns it into the 500 result; an exception it does not
\* catch leaves handler as a fault.
Handle(i, e) ==
    /\ exc' = [exc EXCEPT ![i] = e]
    /\ IF Catches(e.kind)
       THEN /\ result' = [result EXCEPT ![i] = ErrorResult(e)]
            /\ pc' = [pc EXCEPT ![i] = "done"]
       ELSE /\ result' = result
            /\ pc' = [pc EXCEPT ![i] = "fault"]

\* The host calls handler(event, context), at any time after the previous
\* invocation has started: invocations overlap or follow one another.
\* Lines 11-16 run up to the store call, or raise.
Invoke(i, ev) ==
    /\ pc[i] = "idle"
    /\ i > 1 => pc[i - 1] # "idle"
    /\ event' = [event EXCEPT ![i] = ev]
    /\ started' = started + 1
    /\ LET r == Extract(ev)
       IN  IF r = NoExc
           THEN /\ pc' = [pc EXCEPT ![i] = "update"]
                /\ UNCHANGED <<exc, result, clean>>
           ELSE /\ Handle(i, r)
                /\ clean' = FALSE
    /\ UNCHANGED <<table, request, response, reqs, before, after, outcome,
                   initial, applied, log>>

\* Lines 18-28, the store applies the update and answers.
UpdateItemOk(i) ==
    /\ pc[i] = "update"
    /\ LET req == UpdateRequest
           new == TableAdd(table, req)
       IN  /\ table' = new
           /\ request' = [request EXCEPT ![i] = req]
           /\ response' = [response EXCEPT ![i] = UpdateResponse(table, new, req)]
    /\ before' = [before EXCEPT ![i] = CountValue(table)]
    /\ after' = [after EXCEPT ![i] = CountValue(table')]
    /\ reqs' = [reqs EXCEPT ![i] = @ + 1]
    /\ outcome' = [outcome EXCEPT ![i] = "ok"]
    /\ applied' = applied + 1
    /\ pc' = [pc EXCEPT ![i] = "respond"]
    /\ UNCHANGED <<event, exc, result, initial, started, clean, log>>

\* Lines 18-28, the store applies the update but its answer carries no
\* Attributes.
UpdateItemBare(i) ==
    /\ pc[i] = "update"
    /\ LET req == UpdateRequest
       IN  /\ table' = TableAdd(table, req)
           /\ request' = [request EXCEPT ![i] = req]
           /\ response' = [response EXCEPT ![i] = NoResponse]
    /\ before' = [before EXCEPT ![i] = CountValue(table)]
    /\ after' = [after EXCEPT ![i] = CountValue(table')]
    /\ reqs' = [reqs EXCEPT ![i] = @ + 1]
    /\ outcome' = [outcome EXCEPT ![i] = "bare"]
    /\ applied' = applied + 1
    /\ clean' = FALSE
    /\ pc' = [pc EXCEPT ![i] = "respond"]
    /\ UNCHANGED <<event, exc, result, initial, started, log>>

\* Lines 18-28, the store call fails: update_item raises, nothing is applied.
UpdateItemFail(i, text) ==
    /\ pc[i] = "update"
    /\ table' = table
    /\ request' = [request EXCEPT ![i] = UpdateRequest]
    /\ before' = [before EXCEPT ![i] = CountValue(table)]
    /\ after' = [after EXCEPT ![i] = CountValue(table')]
    /\ reqs' = [reqs EXCEPT ![i] = @ + 1]
    /\ outcome' = [outcome EXCEPT ![i] = "fail"]
    /\ Handle(i, Raise("ClientError", text))
    /\ clean' = FALSE
    /\ UNCHANGED <<event, response, initial, applied, started, log>>

\* Lines 30-40: the result is built from the store's response.
Respond(i) ==
    /\ pc[i] = "respond"
    /\ LET new_count == NewCount(response[i])
       IN  IF new_count.t = "raise"
           THEN /\ Handle(i, new_count)
                /\ log' = log
           ELSE /\ result' = [result EXCEPT ![i] = SuccessResult(new_count.s)]
                /\ log' = Append(log, [ev |-> event[i], before |-> before[i],
                                       after |-> after[i],
                                       body |-> SuccessResult(new_count.s).body])
                /\ pc' = [pc EXCEPT ![i] = "done"]
                /\ exc' = exc
    /\ UNCHANGED <<table, event, request, response, reqs, before, after, outcome,
                   initial, applied, started, clean>>

Next ==
    \/ \E i \in Invocations, ev \in Events : Invoke(i, ev)
    \/ \E i \in Invocations : UpdateItemOk(i)
    \/ \E i \in Invocations : UpdateItemBare(i)
    \/ \E i \in Invocations, text \in StoreErrors : UpdateItemFail(i, text)
    \/ \E i \in Invocations : Respond(i)

Spec == Init /\ [][Next]_vars

\* --------------------------------------------------- reading an event
\* What a claim says of an event, read off the event's structure.
Absent == [t |-> "absent"]
Field(v, k) == IF v.t = "dict" /\ k \in DOMAIN v.d THEN v.d[k] ELSE Absent
BucketOf(ev) == Field(Field(Field(ev, "detail"), "requestParameters"), "bucketName")
KeyOf(ev) == Field(Field(Field(ev, "detail"), "requestParameters"), "key")
NonEmpty(v) == v.t = "str" /\ v.s # ""
MissingOrEmpty(v) == v.t = "absent" \/ (v.t = "str" /\ v.s = "")
ValidEvent(ev) == NonEmpty(BucketOf(ev)) /\ NonEmpty(KeyOf(ev))
\* The event is a mapping, and detail and requestParameters are each a
\* mapping or absent.
Shaped(ev) ==
    /\ ev.t = "dict"
    /\ Field(ev, "detail").t \in {"dict", "absent"}
    /\ Field(Field(ev, "detail"), "requestParameters").t \in {"dict", "absent"}

OkBody(c) == "{\"message\": \"Visit count updated successfully\", \"count\": \"" \o c \o "\"}"
ErrBody(e) == "{\"message\": \"Error updating visit count\", \"error\": \"" \o e \o "\"}"

\* ----------------------------------------------------------------- claims
Finished(i) == pc[i] = "done"
Quiet == \A i \in Invocations : pc[i] \in {"idle", "done"}

\* C1: a valid event whose store update succeeds raises the stored count by
\* exactly 1 over the value held immediately before the update, and handler
\* returns 200 with the post-increment value as count.
C1_ValidEventIncrementsByOne ==
    \A i \in Invocations :
        (ValidEvent(event[i]) /\ outcome[i] = "ok") =>
            /\ after[i] = before[i] + 1
            /\ Finished(i) =>
                /\ result[i].statusCode = 200
                /\ result[i].body = OkBody(ToString(before[i] + 1))

C1_Witness ==
    \E i \in Invocations :
        /\ Finished(i) /\ ValidEvent(event[i]) /\ outcome[i] = "ok"
        /\ before[i] = 2 /\ result[i].statusCode = 200

C3_NoLostIncrement ==
    (clean /\ Quiet) => CountValue(table) = CountValue(initial) + started

C3_Witness ==
    /\ clean
    /\ started = NumInvocations
    /\ \A i \in Invocations : Finished(i)
    /\ after[1] > after[NumInvocations]

\* C4: when the store call fails for a valid event, handler returns 500 with
\* message 'Error updating visit count' and the store's failure text as
\* error, and the count is the same after the call as before it.
C4_StoreFailureReported ==
    \A i \in Invocations :
        outcome[i] = "fail" =>
            /\ after[i] = before[i]
            /\ exc[i].text \in StoreErrors
            /\ Finished(i)
            /\ result[i].statusCode = 500
            /\ result[i].body = ErrBody(exc[i].text)

C4_Witness ==
    \E i \in Invocations :
        /\ Finished(i) /\ outcome[i] = "fail" /\ ValidEvent(event[i])
        /\ result[i].statusCode = 500
        /\ before[i] = 1
        /\ CountValue(table) = 1

\* C5: no invocation ends in an unhandled fault; a running invocation can
\* always take its next step, and what it returns has statusCode 200 with a
\* body of exactly message and count, or 500 with a body of exactly message
\* and error.
ErrorTexts ==
    StoreErrors
    \cup {"Invalid event format", "'Attributes'", "'count'",
          "'NoneType' object has no attribute 'get'"}

C5_AlwaysStructuredResult ==
    \A i \in Invocations :
        /\ pc[i] # "fault"
        /\ pc[i] \in {"update", "respond"} => ENABLED (UpdateItemOk(i) \/ Respond(i))
        /\ Finished(i) =>
            \/ /\ result[i].statusCode = 200
               /\ \E n \in 0..(2 * MaxCount) : result[i].body = OkBody(ToString(n))
            \/ /\ result[i].statusCode = 500
               /\ \E e \in ErrorTexts : result[i].body = ErrBody(e)

C5_Witness ==
    /\ \E i \in Invocations :
        /\ Finished(i) /\ event[i] = PyDict([detail |-> PyNone])
        /\ result[i].body = ErrBody("'NoneType' object has no attribute 'get'")
    /\ \E i \in Invocations :
        /\ Finished(i) /\ outcome[i] = "bare"
        /\ result[i].body = ErrBody("'Attributes'")

\* C6: there is no deduplication: any two invocations with valid events whose
\* updates succeeded, the same event or not, each add 1 of their own, so the
\* count stands at least 2 above what the earlier one found, and exactly 2
\* above the initial count when theirs are the only updates applied; each
\* result is decided by the count found, not by the bucket name or key.
C6_NotIdempotent ==
    \A a, b \in DOMAIN log :
        a < b =>
            /\ ValidEvent(log[a].ev) /\ ValidEvent(log[b].ev)
            /\ log[a].body = OkBody(ToString(log[a].before + 1))
            /\ log[b].body = OkBody(ToString(log[b].before + 1))
            /\ log[b].body # log[a].body
            /\ \A x \in {log[a].before, log[b].before} : CountValue(table) >= x + 1
            /\ \E x \in {log[a].before, log[b].before} : CountValue(table) >= x + 2
            /\ applied = 2 => CountValue(table) = CountValue(initial) + 2

C6_Witness ==
    /\ Len(log) = 2
    /\ log[1].ev = log[2].ev
    /\ applied = 2
    /\ log[2].before = log[1].after
    /\ pc[1] = "done" /\ pc[2] = "done"

\* C7: when the record or its count attribute does not exist yet, or the
\* count is 0, a successful valid invocation leaves the record in the table
\* with count 1 and returns 200, 'Visit count updated successfully', count
\* "1".
C7_FirstIncrementCreatesRecord ==
    \A i \in Invocations :
        (outcome[i] = "ok" /\ before[i] = 0) =>
            /\ after[i] = 1
            /\ visit_id \in DOMAIN table
            /\ "count" \in DOMAIN table[visit_id]
            /\ table[visit_id]["count"] >= 1
            /\ Finished(i) =>
                /\ result[i].statusCode = 200
                /\ result[i].body =
                     "{\"message\": \"Visit count updated successfully\", \"count\": \"1\"}"

C7_Witness ==
    \E i \in Invocations :
        /\ DOMAIN initial = {}
        /\ Finished(i) /\ outcome[i] = "ok" /\ before[i] = 0
        /\ result[i].statusCode = 200
        /\ table = [k \in {visit_id} |-> [id |-> visit_id, count |-> 1]]

C7_WitnessNoAttribute ==
    \E i \in Invocations :
        /\ initial = [k \in {visit_id} |-> [id |-> visit_id]]
        /\ Finished(i) /\ outcome[i] = "ok" /\ before[i] = 0

\* C8: an invocation issues no store request before its event has passed
\* validation, never more than one, and for a valid event exactly one: ADD 1
\* to attribute count of record id 'visit_count', returning the updated
\* value; its result exists only after that request has returned or failed.
C8_OneRequestAfterValidation ==
    \A i \in Invocations :
        /\ reqs[i] <= 1
        /\ pc[i] \in {"idle", "update"} => reqs[i] = 0 /\ outcome[i] = "none"
        /\ reqs[i] = 1 =>
            /\ ValidEvent(event[i])
            /\ outcome[i] \in {"ok", "bare", "fail"}
            /\ request[i].Key = [id |-> [S |-> "visit_count"]]
            /\ request[i].UpdateExpression.action = "ADD"
            /\ ReqAttr(request[i]) = "count"
            /\ ReqInc(request[i]) = 1
            /\ request[i].ReturnValues = "UPDATED_NEW"
        /\ (pc[i] \in {"respond", "done"} /\ ValidEvent(event[i])) => reqs[i] = 1
        /\ result[i] # NoResult => (Finished(i) /\ (ValidEvent(event[i]) <=> reqs[i] = 1))

C8_Witness ==
    \E i \in Invocations :
        /\ Finished(i) /\ reqs[i] = 1 /\ outcome[i] = "ok"
        /\ \E j \in Invocations : j # i /\ pc[j] = "respond" /\ reqs[j] = 1

\* C9: the stored count is always the initial count plus the number of store
\* updates applied: a non-negative integer; invocations that fail
\* validation or whose store call fails leave it as they found it.
C9_CountIsInitialPlusApplied ==
    /\ CountValue(table) = CountValue(initial) + applied
    /\ CountValue(table) \in Nat
    /\ applied <= started
    /\ \A i \in Invocations :
        /\ outcome[i] \in {"ok", "bare"} => after[i] = before[i] + 1
        /\ outcome[i] = "fail" => after[i] = before[i]
        /\ (pc[i] # "idle" /\ ~ValidEvent(event[i])) => reqs[i] = 0

C9_Witness ==
    /\ applied = 1
    /\ started = NumInvocations
    /\ \E i \in Invocations : Finished(i) /\ outcome[i] = "fail"
    /\ \E i \in Invocations : Finished(i) /\ outcome[i] = "ok"

\* C10: the counts returned in 200 results are pairwise distinct, and when
\* every invocation was valid and succeeded they are, once all have produced
\* their result, exactly initial+1 .. initial+N.
C10_ReturnedCountsDistinct ==
    /\ \A a, b \in DOMAIN log : a # b => log[a].body # log[b].body
    /\ (clean /\ Quiet) =>
        /\ Len(log) = started
        /\ {log[a].body : a \in DOMAIN log} =
             {OkBody(ToString(CountValue(initial) + k)) : k \in 1..started}

C10_Witness ==
    /\ clean
    /\ started = NumInvocations
    /\ \A i \in Invocations : Finished(i)
    /\ result[1].body = OkBody(ToString(CountValue(initial) + NumInvocations))

====
